---------------------------- MODULE Spec2Model ----------------------------
(* State-machine model of src/main.py: the linear pipeline                 *)
(*   search -> fetch durations -> filter -> sort -> print                  *)
(* that looks for videos whose duration equals a target exactly.           *)
(*                                                                         *)
(* Python values are modelled as follows.                                  *)
(*   timedelta     record [days, seconds], normalised as Python does       *)
(*   str           a tuple of one-character strings (video ids, numbers    *)
(*                 printed with str()), or a TLA+ string for fixed texts   *)
(*   dict          a tuple of [k, v] records in insertion order            *)
(*   list          a tuple                                                 *)
EXTENDS Integers, Sequences, FiniteSets, TLC

VARIABLES
    pc,              \* position of the control flow in main()
    minutes,         \* main(): argument
    seconds,         \* main(): argument
    duration,        \* main(): duration / target_duration
    search_params,   \* search_videos_by_length: the request parameters
    video_ids,       \* search_videos_by_length: identifiers collected
    page_token,      \* search_videos_by_length: continuation token
    search_fails,    \* consecutive non-success search responses so far
    any_fail,        \* some search response was a non-success
    overfull,        \* some search response carried more items than asked
    empty_page,      \* some search response carried a token but no item
    requested,       \* this process has sent a search request
    cache,           \* cached variant: the Search Result Cache, in memory
    cache_file,      \* cached variant: the cache as persisted
    completed,       \* cached variant: queries whose search completed in an
                     \* earlier process
    i,               \* get_video_durations: offset of the next chunk
    durations,       \* get_video_durations: the mapping being built
    batch_requests,  \* requests sent to the metadata API, in order: the
                     \* chunk asked for and the status answered
    incomplete,      \* some metadata response lacked a requested id
    main_durations,  \* main(): durations, as returned to it
    filtered_videos, \* main(): filtered_videos
    sorted_videos,   \* main(): sorted_videos
    output,          \* what print() wrote, one entry per call
    exit_code,       \* process exit status (sys.exit)
    category         \* get_video_duration_category called on its own: the result

vars == <<pc, minutes, seconds, duration, search_params, video_ids, page_token,
          search_fails, any_fail, overfull, empty_page, requested, cache,
          cache_file, completed, i, durations,
          batch_requests, incomplete, main_durations, filtered_videos,
          sorted_videos, output, exit_code, category>>

-----------------------------------------------------------------------------
(* Bounds of the model.                                                    *)

\* consecutive failures of the search API that are explored
MaxFails == 3
\* items a search response may carry beyond the page size requested
MaxExtra == 1
\* longest identifier list handed to get_video_durations on its own
MaxIds == 121
\* entries of the mappings handed to the filter/sort/print stages
MaxEntries == 3
\* largest duration (seconds) handed to the classifier
MaxSeconds == 1300
\* most negative duration (seconds below zero) handed to the classifier
MaxNegative == 3

-----------------------------------------------------------------------------
(* Program constants.                                                      *)

YT_MAX_RES_PER_REQUEST == 50
max_total == 30
HTTP_OK == 200
SecondsPerDay == 24 * 60 * 60

None == "None"

Min(a, b) == IF a < b THEN a ELSE b

-----------------------------------------------------------------------------
(* datetime.timedelta                                                      *)

\* timedelta(seconds=total), normalised: 0 <= seconds < 86400
TimedeltaOfSeconds(total) ==
    [days |-> total \div SecondsPerDay, seconds |-> total % SecondsPerDay]

\* timedelta(minutes=m, seconds=s)
Timedelta(m, s) == TimedeltaOfSeconds(60 * m + s)

\* a < b on timedeltas
TdLess(a, b) ==
    \/ a.days < b.days
    \/ a.days = b.days /\ a.seconds < b.seconds

IsTimedelta(v) == DOMAIN v = {"days", "seconds"}

TotalSeconds(td) == td.days * SecondsPerDay + td.seconds

-----------------------------------------------------------------------------
(* Strings                                                                 *)

UpperChars == {"A", "B", "C", "D", "E", "F", "G", "H", "I", "J", "K", "L", "M",
               "N", "O", "P", "Q", "R", "S", "T", "U", "V", "W", "X", "Y", "Z"}
DigitChars == {"0", "1", "2", "3", "4", "5", "6", "7", "8", "9"}
DigitSeq == <<"0", "1", "2", "3", "4", "5", "6", "7", "8", "9">>

\* str(n) for a natural number n
RECURSIVE Str(_)
Str(n) == IF n < 10 THEN <<DigitSeq[n + 1]>>
          ELSE Str(n \div 10) \o <<DigitSeq[(n % 10) + 1]>>

DigitValue(c) == CHOOSE d \in 0..9 : DigitSeq[d + 1] = c

\* what the API reads back from a decimal parameter
RECURSIVE ParseInt(_)
ParseInt(s) == IF Len(s) = 1 THEN DigitValue(s[1])
               ELSE 10 * ParseInt(SubSeq(s, 1, Len(s) - 1)) + DigitValue(s[Len(s)])

-----------------------------------------------------------------------------
(* get_video_duration_category and get_yt_search_query                     *)

\* fault: the thresholds taken with <= instead of <
CategoryWithInclusiveThresholds(d) ==
    IF ~IsTimedelta(d) THEN "ValueError"
    ELSE IF ~TdLess(Timedelta(4, 0), d) THEN "short"
    ELSE IF ~TdLess(Timedelta(20, 0), d) THEN "medium"
    ELSE "long"

get_video_duration_category(d) ==
    IF ~IsTimedelta(d) THEN "ValueError"
    ELSE IF TdLess(d, Timedelta(4, 0)) THEN "short"
    ELSE IF TdLess(d, Timedelta(20, 0)) THEN "medium"
    ELSE "long"

get_yt_search_query(d) ==
    IF ~IsTimedelta(d) THEN <<"ValueError">>
    ELSE Str(d.seconds \div 60) \o <<" minutes ">> \o Str(d.seconds % 60)
         \o <<" seconds">>

-----------------------------------------------------------------------------
(* Python dict, in insertion order                                         *)

DictKeys(d) == [j \in DOMAIN d |-> d[j].k]

DictHas(d, key) == \E j \in DOMAIN d : d[j].k = key

DictGet(d, key) == d[CHOOSE j \in DOMAIN d : d[j].k = key].v

\* d[key] = value: a new key goes last, an old key keeps its place
DictSet(d, key, value) ==
    IF DictHas(d, key)
    THEN [j \in DOMAIN d |-> IF d[j].k = key THEN [k |-> key, v |-> value] ELSE d[j]]
    ELSE Append(d, [k |-> key, v |-> value])

-----------------------------------------------------------------------------
(* The external APIs: what a response may carry                            *)

\* status codes the APIs answer with
Statuses == {HTTP_OK, 403, 500}

\* continuation tokens the search API hands out
Tokens == {"CAUQAA", "CAoQAA"}

IdPrefixes == << <<"a", "b">>, <<"A", "b">>, <<"x", "Y", "Z">>, <<"_">> >>

\* the identifier at place n of the search API's result list
IdAt(n) == IdPrefixes[(n % Len(IdPrefixes)) + 1] \o Str(n)

\* the ISO-8601 text "P<D>DT<H>H<M>M<S>S", by its fields
IsoFor(total) ==
    [D |-> 0, H |-> total \div 3600, M |-> (total % 3600) \div 60, S |-> total % 60]

\* durations the metadata API reports around a target of t seconds: the
\* target, one second more, one second less, the target in seconds only
IsoVariants(t) ==
    << IsoFor(t), IsoFor(t + 1), IsoFor(IF t > 0 THEN t - 1 ELSE t + 2),
       [D |-> 0, H |-> 0, M |-> 0, S |-> t] >>

\* how a metadata response spreads the variants over the places of a chunk
ReplyPatterns == {0, 1}

IsoAt(t, pattern, place) == IsoVariants(t)[((pattern * place) % 4) + 1]

\* isodate.parse_duration
ParseDuration(iso) ==
    TimedeltaOfSeconds(iso.D * SecondsPerDay + iso.H * 3600 + iso.M * 60 + iso.S)

-----------------------------------------------------------------------------
(* search_videos_by_length                                                 *)

InitialSearchParams(d) ==
    [part |-> "snippet", q |-> get_yt_search_query(d), type |-> "video",
     videoDuration |-> get_video_duration_category(d), key |-> "API_KEY",
     fields |-> "items(id/videoId),nextPageToken",
     maxResults |-> <<>>, pageToken |-> None]

\* fault: the page size not capped by what is left of max_total
PageSizeWithoutQuota(ids) == YT_MAX_RES_PER_REQUEST

\* the page size asked for when ids are collected already
PageSize(ids) == Min(YT_MAX_RES_PER_REQUEST, max_total - Len(ids))

\* the parameters of the request one loop iteration sends
RequestParams(params, ids, tok) ==
    [params EXCEPT !.maxResults = Str(PageSize(ids)),
                   !.pageToken = IF tok # None THEN tok ELSE @]

searchLocals == <<search_params, video_ids, page_token>>
searchHistory == <<search_fails, any_fail, overfull, empty_page>>
cacheVars == <<cache, cache_file, completed>>
lookupVars == <<i, durations, batch_requests, incomplete, main_durations>>
tailVars == <<filtered_videos, sorted_videos, output>>
argVars == <<minutes, seconds, duration>>
harnessVars == <<category>>

\* fault: the search gives up at the second failure in a row
SearchFailGivesUp(status) ==
    /\ pc = "search"
    /\ status # HTTP_OK
    /\ Len(video_ids) < max_total
    /\ search_fails < MaxFails
    /\ search_params' = RequestParams(search_params, video_ids, page_token)
    /\ search_fails' = search_fails + 1
    /\ any_fail' = TRUE
    /\ requested' = TRUE
    /\ pc' = IF search_fails >= 1 THEN "lookup" ELSE "search"
    /\ UNCHANGED <<video_ids, page_token, overfull, empty_page, exit_code>>
    /\ UNCHANGED <<argVars, cacheVars, lookupVars, tailVars, harnessVars>>

\* one loop iteration answered by a non-success status: log and continue
SearchFail(status) ==
    /\ pc = "search"
    /\ status # HTTP_OK
    /\ Len(video_ids) < max_total
    /\ search_fails < MaxFails
    /\ search_params' = RequestParams(search_params, video_ids, page_token)
    /\ search_fails' = search_fails + 1
    /\ any_fail' = TRUE
    /\ requested' = TRUE
    /\ UNCHANGED <<pc, video_ids, page_token, overfull, empty_page, exit_code>>
    /\ UNCHANGED <<argVars, cacheVars, lookupVars, tailVars, harnessVars>>

\* fault: the loop goes on when a response carries no continuation token
SearchOkWithoutBreak(n, tok) ==
    LET req == RequestParams(search_params, video_ids, page_token)
        items == [j \in 1..n |-> IdAt(Len(video_ids) + j)]
        ids == video_ids \o items
    IN  /\ pc = "search"
        /\ Len(video_ids) < max_total
        /\ n <= ParseInt(req.maxResults) + MaxExtra
        /\ search_params' = IF Len(ids) >= max_total
                            THEN InitialSearchParams(duration)
                            ELSE req
        /\ video_ids' = ids
        /\ page_token' = tok
        /\ search_fails' = 0
        /\ overfull' = (overfull \/ n > ParseInt(req.maxResults))
        /\ empty_page' = (empty_page \/ (n = 0 /\ tok # None))
        /\ pc' = IF Len(ids) >= max_total THEN "lookup" ELSE "search"
        /\ requested' = TRUE
        /\ UNCHANGED <<any_fail, exit_code>>
        /\ UNCHANGED <<argVars, lookupVars, tailVars, harnessVars>>

\* one loop iteration answered by 200 with n items and continuation token tok;
\* when the loop ends the function returns video_ids and its request
\* parameters are dropped (page_token keeps the last response's token)
SearchOkCore(n, tok) ==
    LET req == RequestParams(search_params, video_ids, page_token)
        items == [j \in 1..n |-> IdAt(Len(video_ids) + j)]
        ids == video_ids \o items
    IN  /\ pc = "search"
        /\ Len(video_ids) < max_total
        /\ n <= ParseInt(req.maxResults) + MaxExtra
        /\ search_params' = IF tok = None \/ Len(ids) >= max_total
                            THEN InitialSearchParams(duration)
                            ELSE req
        /\ video_ids' = ids
        /\ page_token' = tok
        /\ search_fails' = 0
        /\ overfull' = (overfull \/ n > ParseInt(req.maxResults))
        /\ empty_page' = (empty_page \/ (n = 0 /\ tok # None))
        /\ pc' = IF tok = None \/ Len(ids) >= max_total THEN "lookup" ELSE "search"
        /\ requested' = TRUE
        /\ UNCHANGED <<any_fail, exit_code>>
        /\ UNCHANGED <<argVars, lookupVars, tailVars, harnessVars>>

SearchOk(n, tok) == SearchOkCore(n, tok) /\ UNCHANGED cacheVars

SearchStep ==
    \/ \E status \in Statuses \ {HTTP_OK} : SearchFail(status)
    \/ \E n \in 0..(PageSize(video_ids) + MaxExtra), tok \in Tokens \cup {None} :
          SearchOk(n, tok)

-----------------------------------------------------------------------------
(* get_video_durations                                                     *)

\* fault: the slice one short, video_ids[i:i + YT_MAX_RES_PER_REQUEST - 1]
ChunkOneShort(ids, at) ==
    SubSeq(ids, at + 1, Min(at + YT_MAX_RES_PER_REQUEST - 1, Len(ids)))

\* video_ids[i:i + YT_MAX_RES_PER_REQUEST]
Chunk(ids, at) == SubSeq(ids, at + 1, Min(at + YT_MAX_RES_PER_REQUEST, Len(ids)))

\* the items of a metadata response to chunk: every id but the one at
\* place miss (0: none is missing; a response lacks at most its first id
\* here), each with an ISO-8601 duration
ResponseItems(chunk, at, t, pattern, miss) ==
    LET places == SelectSeq([j \in DOMAIN chunk |-> j], LAMBDA j : j # miss)
    IN  [n \in DOMAIN places |->
            [id |-> chunk[places[n]], duration |-> IsoAt(t, pattern, at + places[n])]]

\* the for loop over the items, durations[vid_id] = parse_duration(...), as
\* its result: an id of d keeps its place, a new id goes behind in the order
\* of its first item, and each id named by an item gets its last item's value
StoreItems(d, items) ==
    LET Named(key) == \E j \in DOMAIN items : items[j].id = key
        LastOf(key) == CHOOSE j \in DOMAIN items :
                          /\ items[j].id = key
                          /\ \A m \in (j + 1)..Len(items) : items[m].id # key
        Value(key, old) ==
            IF Named(key) THEN ParseDuration(items[LastOf(key)].duration) ELSE old
        kept == [j \in DOMAIN d |-> [k |-> d[j].k, v |-> Value(d[j].k, d[j].v)]]
        firsts == SelectSeq([j \in DOMAIN items |-> j],
                            LAMBDA j : /\ ~DictHas(d, items[j].id)
                                       /\ \A m \in 1..(j - 1) : items[m].id # items[j].id)
        added == [n \in DOMAIN firsts |->
                    [k |-> items[firsts[n]].id,
                     v |-> ParseDuration(items[LastOf(items[firsts[n]].id)].duration)]]
    IN  kept \o added

\* fault: a failed chunk is logged and skipped
LookupFailSkips(status) ==
    /\ pc = "lookup"
    /\ i < Len(video_ids)
    /\ status # HTTP_OK
    /\ batch_requests' = Append(batch_requests,
                                [ids |-> SubSeq(video_ids, i + 1,
                                                Min(i + YT_MAX_RES_PER_REQUEST, Len(video_ids))),
                                 status |-> status])
    /\ i' = i + YT_MAX_RES_PER_REQUEST
    /\ UNCHANGED <<pc, exit_code, durations, incomplete, main_durations>>
    /\ UNCHANGED <<argVars, searchLocals, searchHistory, requested, cacheVars>>
    /\ UNCHANGED <<tailVars, harnessVars>>

\* one chunk answered by a non-success status: log and sys.exit(1)
LookupFail(status) ==
    /\ pc = "lookup"
    /\ i < Len(video_ids)
    /\ status # HTTP_OK
    /\ batch_requests' = Append(batch_requests,
                                [ids |-> Chunk(video_ids, i), status |-> status])
    /\ pc' = "exited"
    /\ exit_code' = 1
    /\ UNCHANGED <<i, durations, incomplete, main_durations>>
    /\ UNCHANGED <<argVars, searchLocals, searchHistory, requested, cacheVars>>
    /\ UNCHANGED <<tailVars, harnessVars>>

\* one chunk answered by 200
LookupOk(pattern, miss) ==
    LET chunk == Chunk(video_ids, i)
        items == ResponseItems(chunk, i, TotalSeconds(duration), pattern, miss)
    IN  /\ pc = "lookup"
        /\ i < Len(video_ids)
        /\ miss \in {0, 1}
        /\ batch_requests' = Append(batch_requests, [ids |-> chunk, status |-> HTTP_OK])
        /\ durations' = StoreItems(durations, items)
        /\ incomplete' = (incomplete \/ miss # 0)
        /\ i' = i + YT_MAX_RES_PER_REQUEST
        /\ UNCHANGED <<pc, exit_code, main_durations>>
        /\ UNCHANGED <<argVars, searchLocals, searchHistory, requested, cacheVars>>
        /\ UNCHANGED <<tailVars, harnessVars>>

\* the range is exhausted: return durations to main()
LookupReturn ==
    /\ pc = "lookup"
    /\ i >= Len(video_ids)
    /\ main_durations' = durations
    /\ pc' = "filter"
    /\ UNCHANGED <<i, durations, batch_requests, incomplete, exit_code>>
    /\ UNCHANGED <<argVars, searchLocals, searchHistory, requested, cacheVars>>
    /\ UNCHANGED <<tailVars, harnessVars>>

LookupStep ==
    \/ \E status \in Statuses \ {HTTP_OK} : LookupFail(status)
    \/ \E pattern \in ReplyPatterns, miss \in 0..YT_MAX_RES_PER_REQUEST :
          LookupOk(pattern, miss)
    \/ LookupReturn

-----------------------------------------------------------------------------
(* filter_videos_by_duration, sort_videos, print_results                   *)

\* fault: a tolerance of one second around the target
FilterWithTolerance(d, target_duration) ==
    SelectSeq(d, LAMBDA e : /\ TotalSeconds(e.v) - TotalSeconds(target_duration) <= 1
                            /\ TotalSeconds(target_duration) - TotalSeconds(e.v) <= 1)

\* the dict comprehension: entries with dur == target_duration, in order
filter_videos_by_duration(d, target_duration) ==
    SelectSeq(d, LAMBDA e : e.v = target_duration)

num_upper_case(s) == Cardinality({j \in DOMAIN s : s[j] \in UpperChars})

num_digits(s) == Cardinality({j \in DOMAIN s : s[j] \in DigitChars})

\* the key lambda of sorted()
SortKey(d, vid_id) == <<num_upper_case(vid_id), num_digits(vid_id), DictGet(d, vid_id)>>

\* fault: the duration left out of the comparison
KeyLessWithoutDuration(a, b) ==
    \/ a[1] < b[1]
    \/ a[1] = b[1] /\ a[2] < b[2]

\* a < b on the key tuples
KeyLess(a, b) ==
    \/ a[1] < b[1]
    \/ a[1] = b[1] /\ a[2] < b[2]
    \/ a[1] = b[1] /\ a[2] = b[2] /\ TdLess(a[3], b[3])

\* sorted(keys, key=...), ascending and stable, as its result: an element
\* comes behind every element with a smaller key and behind every earlier
\* element with an equal key
Sorted(d, keys) ==
    LET key == [j \in DOMAIN keys |-> SortKey(d, keys[j])] \o <<>>
        Before(a, b) == \/ KeyLess(key[a], key[b])
                        \/ ~KeyLess(key[b], key[a]) /\ a < b
        place == [j \in DOMAIN keys |->
                    1 + Cardinality({m \in DOMAIN keys : Before(m, j)})] \o <<>>
    IN  [r \in DOMAIN keys |-> keys[CHOOSE j \in DOMAIN keys : place[j] = r]]

sort_videos(d) == Sorted(d, DictKeys(d))

\* utils/formatting.py
bold(text) == <<"ESC[1m">> \o text \o <<"ESC[0m">>

green(text) == <<"ESC[32m">> \o text \o <<"ESC[0m">>

indent(text) == <<"\t">> \o text

Placeholder == <<"No videos found :(">>

HeaderLine == <<"\n">> \o indent(bold(<<"Sorted video ids:">>))

IdLine(video_id) == indent(green(video_id))

\* fault: the early return after the placeholder is missing
PrintWithoutReturn(ids) ==
    (IF ids = <<>> THEN <<Placeholder>> ELSE <<>>)
    \o <<HeaderLine>> \o [j \in DOMAIN ids |-> IdLine(ids[j])] \o << <<>> >>

\* what print_results writes, one entry per print() call
print_results(ids) ==
    IF ids = <<>> THEN <<Placeholder>>
    ELSE <<HeaderLine>> \o [j \in DOMAIN ids |-> IdLine(ids[j])] \o << <<>> >>

\* main(), step 3
Filter ==
    /\ pc = "filter"
    /\ filtered_videos' = filter_videos_by_duration(main_durations, Timedelta(minutes, seconds))
    /\ pc' = "sort"
    /\ UNCHANGED <<sorted_videos, output, exit_code>>
    /\ UNCHANGED <<argVars, searchLocals, searchHistory, requested, cacheVars>>
    /\ UNCHANGED <<lookupVars, harnessVars>>

\* main(), step 4: sort
Sort ==
    /\ pc = "sort"
    /\ sorted_videos' = sort_videos(filtered_videos)
    /\ pc' = "print"
    /\ UNCHANGED <<filtered_videos, output, exit_code>>
    /\ UNCHANGED <<argVars, searchLocals, searchHistory, requested, cacheVars>>
    /\ UNCHANGED <<lookupVars, harnessVars>>

\* main(), step 4: print, and the process ends
PrintResults ==
    /\ pc = "print"
    /\ output' = print_results(sorted_videos)
    /\ pc' = "done"
    /\ exit_code' = 0
    /\ UNCHANGED <<filtered_videos, sorted_videos>>
    /\ UNCHANGED <<argVars, searchLocals, searchHistory, requested, cacheVars>>
    /\ UNCHANGED <<lookupVars, harnessVars>>

TailStep == Filter \/ Sort \/ PrintResults

\* get_video_duration_category called on its own
Classify ==
    /\ pc = "classify"
    /\ category' = get_video_duration_category(duration)
    /\ pc' = "classified"
    /\ UNCHANGED <<exit_code>>
    /\ UNCHANGED <<argVars, searchLocals, searchHistory, requested, cacheVars>>
    /\ UNCHANGED <<lookupVars, tailVars>>

-----------------------------------------------------------------------------
(* Specifications                                                          *)

\* the command line: --minutes, --seconds
Args == {<<3, 59>>, <<20, 22>>}

\* nothing has run yet
Blank ==
    /\ video_ids = <<>>
    /\ page_token = None
    /\ search_fails = 0
    /\ any_fail = FALSE
    /\ overfull = FALSE
    /\ empty_page = FALSE
    /\ requested = FALSE
    /\ i = 0
    /\ durations = <<>>
    /\ batch_requests = <<>>
    /\ incomplete = FALSE
    /\ main_durations = <<>>
    /\ filtered_videos = <<>>
    /\ sorted_videos = <<>>
    /\ output = <<>>
    /\ exit_code = -1
    /\ category = ""

\* main(minutes, seconds) has entered search_videos_by_length
Init ==
    /\ pc = "search"
    /\ \E a \in Args : minutes = a[1] /\ seconds = a[2]
    /\ duration = Timedelta(minutes, seconds)
    /\ search_params = InitialSearchParams(duration)
    /\ cache = <<>> /\ cache_file = <<>> /\ completed = {}
    /\ Blank

Next == SearchStep \/ LookupStep \/ TailStep

Spec == Init /\ [][Next]_vars

\* the search loop alone, for page fills of none, one, seven and the whole
\* page; the process keeps running the loop while it can
NextLive ==
    \/ \E status \in Statuses \ {HTTP_OK} : SearchFail(status)
    \/ \E n \in {0, 1, 7, PageSize(video_ids)}, tok \in Tokens \cup {None} :
          SearchOk(n, tok)

SpecLive == Init /\ [][NextLive]_vars /\ WF_vars(NextLive)

\* a list of n identifiers that repeats after period places
IdList(n, period) == [j \in 1..n |-> IdAt(((j - 1) % period) + 1)]

\* main() is about to call get_video_durations(video_ids)
InitLookup ==
    /\ pc = "lookup"
    /\ minutes = 20 /\ seconds = 22
    /\ duration = Timedelta(minutes, seconds)
    /\ search_params = InitialSearchParams(duration)
    /\ cache = <<>> /\ cache_file = <<>> /\ completed = {}
    /\ \E n \in 0..MaxIds, period \in {7, MaxIds + 1} :
          /\ video_ids = IdList(n, period)
          /\ page_token = None
          /\ search_fails = 0 /\ any_fail = FALSE /\ overfull = FALSE
          /\ empty_page = FALSE /\ requested = TRUE
          /\ i = 0 /\ durations = <<>> /\ batch_requests = <<>>
          /\ incomplete = FALSE /\ main_durations = <<>>
          /\ filtered_videos = <<>> /\ sorted_videos = <<>> /\ output = <<>>
          /\ exit_code = -1 /\ category = ""

NextLookup == LookupStep \/ TailStep

SpecLookup == InitLookup /\ [][NextLookup]_vars

\* identifiers and durations handed to the filter/sort/print stages
IdPool == { <<"A", "B", "1">>, <<"1", "2", "3">>, <<"x", "4", "5", "6">>, <<"Q", "a">> }
DurPool == { Timedelta(1, 0), Timedelta(1, 1), Timedelta(0, 59), Timedelta(0, 30) }

\* main(1, 0) is about to call filter_videos_by_duration(durations, target)
InitFilter ==
    /\ pc = "filter"
    /\ minutes = 1 /\ seconds = 0
    /\ duration = Timedelta(minutes, seconds)
    /\ search_params = InitialSearchParams(duration)
    /\ cache = <<>> /\ cache_file = <<>> /\ completed = {}
    /\ \E n \in 0..MaxEntries :
          \E ids \in [1..n -> IdPool], durs \in [1..n -> DurPool] :
             /\ \A a, b \in 1..n : a # b => ids[a] # ids[b]
             /\ main_durations = [j \in 1..n |-> [k |-> ids[j], v |-> durs[j]]]
             /\ durations = main_durations
             /\ video_ids = ids
    /\ page_token = None
    /\ search_fails = 0 /\ any_fail = FALSE /\ overfull = FALSE
    /\ empty_page = FALSE /\ requested = TRUE
    /\ i = 0 /\ batch_requests = <<>> /\ incomplete = FALSE
    /\ filtered_videos = <<>> /\ sorted_videos = <<>> /\ output = <<>>
    /\ exit_code = -1 /\ category = ""

SpecFilter == InitFilter /\ [][TailStep]_vars

\* get_video_duration_category is about to be called with duration
InitClassify ==
    /\ pc = "classify"
    /\ minutes = 0 /\ seconds = 0
    /\ duration \in {TimedeltaOfSeconds(t) : t \in (-MaxNegative)..MaxSeconds}
                     \cup {[value |-> 300]}
    /\ search_params = InitialSearchParams(Timedelta(0, 0))
    /\ cache = <<>> /\ cache_file = <<>> /\ completed = {}
    /\ Blank

SpecClassify == InitClassify /\ [][Classify]_vars

\* main() is about to call sort_videos on a mapping of any durations
InitSort ==
    /\ pc = "sort"
    /\ minutes = 1 /\ seconds = 0
    /\ duration = Timedelta(minutes, seconds)
    /\ search_params = InitialSearchParams(duration)
    /\ cache = <<>> /\ cache_file = <<>> /\ completed = {}
    /\ \E n \in 0..MaxEntries :
          \E ids \in [1..n -> IdPool], durs \in [1..n -> DurPool] :
             /\ \A a, b \in 1..n : a # b => ids[a] # ids[b]
             /\ filtered_videos = [j \in 1..n |-> [k |-> ids[j], v |-> durs[j]]]
             /\ main_durations = filtered_videos
             /\ durations = filtered_videos
             /\ video_ids = ids
    /\ page_token = None
    /\ search_fails = 0 /\ any_fail = FALSE /\ overfull = FALSE
    /\ empty_page = FALSE /\ requested = TRUE
    /\ i = 0 /\ batch_requests = <<>> /\ incomplete = FALSE
    /\ sorted_videos = <<>> /\ output = <<>>
    /\ exit_code = -1 /\ category = ""

NextSort == Sort \/ PrintResults

SpecSort == InitSort /\ [][NextSort]_vars

-----------------------------------------------------------------------------
(* The cached variant of the search: the Search Result Cache is consulted  *)
(* before any request and written, and persisted whole, on completion.     *)
(* Processes follow one another; each loads the persisted cache at start.  *)

Query == get_yt_search_query(duration)

\* fault: the cache is not consulted
CacheCheckAlwaysMisses ==
    /\ pc = "cache_check"
    /\ video_ids' = video_ids /\ pc' = "search"
    /\ UNCHANGED <<search_params, page_token, searchHistory, requested, exit_code>>
    /\ UNCHANGED <<argVars, cacheVars, lookupVars, tailVars, harnessVars>>

\* the cache is consulted under the lock: a hit returns the cached list
CacheCheck ==
    /\ pc = "cache_check"
    /\ IF DictHas(cache, Query)
       THEN video_ids' = DictGet(cache, Query) /\ pc' = "lookup"
       ELSE video_ids' = video_ids /\ pc' = "search"
    /\ UNCHANGED <<search_params, page_token, searchHistory, requested, exit_code>>
    /\ UNCHANGED <<argVars, cacheVars, lookupVars, tailVars, harnessVars>>

\* a loop iteration of the cached search answered by 200: on completion the
\* result is written to the cache and the cache persisted before returning
CachedSearchOk(n, tok) ==
    /\ SearchOkCore(n, tok)
    /\ IF pc' = "lookup"
       THEN cache' = DictSet(cache, Query, video_ids') /\ cache_file' = cache'
       ELSE UNCHANGED <<cache, cache_file>>
    /\ UNCHANGED completed

\* the search has returned and the process ends; another process starts
\* with arguments a and loads the persisted cache
NewProcess(a) ==
    /\ pc = "lookup"
    /\ completed' = completed \cup {Query}
    /\ cache' = cache_file
    /\ minutes' = a[1] /\ seconds' = a[2]
    /\ duration' = Timedelta(a[1], a[2])
    /\ search_params' = InitialSearchParams(duration')
    /\ video_ids' = <<>> /\ page_token' = None
    /\ search_fails' = 0 /\ any_fail' = FALSE /\ overfull' = FALSE
    /\ empty_page' = FALSE /\ requested' = FALSE
    /\ pc' = "cache_check"
    /\ UNCHANGED <<cache_file, exit_code>>
    /\ UNCHANGED <<lookupVars, tailVars, harnessVars>>

InitCached ==
    /\ pc = "cache_check"
    /\ \E a \in Args : minutes = a[1] /\ seconds = a[2]
    /\ duration = Timedelta(minutes, seconds)
    /\ search_params = InitialSearchParams(duration)
    /\ cache = <<>> /\ cache_file = <<>> /\ completed = {}
    /\ Blank

\* page fills explored by the cached search: none, ten, the whole page
NextCached ==
    \/ CacheCheck
    \/ \E status \in Statuses \ {HTTP_OK} : SearchFail(status)
    \/ \E n \in {0, 10, PageSize(video_ids)}, tok \in Tokens \cup {None} :
          CachedSearchOk(n, tok)
    \/ \E a \in Args : NewProcess(a)

SpecCached == InitCached /\ [][NextCached]_vars

-----------------------------------------------------------------------------
(* Properties                                                              *)

\* the concatenation of the chunks of the requests sent so far
RECURSIVE Requested(_)
Requested(reqs) ==
    IF reqs = <<>> THEN <<>>
    ELSE Requested(SubSeq(reqs, 1, Len(reqs) - 1)) \o reqs[Len(reqs)].ids

Returned == pc \in {"filter", "sort", "print", "done"}

TargetSeconds == 60 * minutes + seconds

(* C1: as long as no success response carried more items than the page     *)
(* size requested, search_videos_by_length holds at most max_total (30)    *)
(* identifiers, after every loop iteration and in the list it returns,     *)
(* whatever successes, failures and continuation tokens came before.       *)
TheoremC1 == ~overfull => Len(video_ids) <= max_total

\* the search has returned a full list after failures and empty pages
WitnessC1 ==
    /\ pc = "lookup"
    /\ ~overfull /\ any_fail /\ empty_page
    /\ Len(video_ids) = max_total

(* C2: a loop iteration answered by a non-success status leaves the        *)
(* identifiers and the continuation token as they were and stays in the    *)
(* loop, the request of the next iteration being the one just sent (same   *)
(* token, same page size); however many failures came in a row, the search *)
(* has not returned and no duration lookup has been sent.                  *)
TheoremC2 ==
    /\ [][search_fails' = search_fails + 1 =>
            /\ pc = "search" /\ pc' = "search"
            /\ video_ids' = video_ids
            /\ page_token' = page_token
            /\ RequestParams(search_params', video_ids', page_token') = search_params'
            /\ (search_fails > 0 => search_params' = search_params)]_vars
    /\ [](search_fails > 0 => pc = "search" /\ batch_requests = <<>>)

\* the third failure in a row on a later page: still in the loop
WitnessC2 ==
    /\ pc = "search"
    /\ search_fails = 3
    /\ video_ids # <<>>
    /\ page_token \in Tokens
    /\ search_params.pageToken = page_token
    /\ batch_requests = <<>>

(* C3: get_video_durations sends one request per chunk: each request is    *)
(* for a non-empty run of at most 50 identifiers, the chunks requested so  *)
(* far make up the start of the list; once it has returned, it has sent    *)
(* ceil(n/50) requests (none for n = 0) whose chunks make up the whole     *)
(* list, and, every response having carried every id asked for, the        *)
(* mapping has an entry for every identifier of the list.                  *)
TheoremC3 ==
    /\ \A r \in DOMAIN batch_requests :
          Len(batch_requests[r].ids) \in 1..YT_MAX_RES_PER_REQUEST
    /\ Len(Requested(batch_requests)) <= Len(video_ids)
    /\ Requested(batch_requests) = SubSeq(video_ids, 1, Len(Requested(batch_requests)))
    /\ Returned =>
          /\ Len(batch_requests) * YT_MAX_RES_PER_REQUEST >= Len(video_ids)
          /\ (Len(batch_requests) - 1) * YT_MAX_RES_PER_REQUEST < Len(video_ids)
                \/ Len(batch_requests) = 0
          /\ Requested(batch_requests) = video_ids
          /\ ~incomplete =>
                /\ \A j \in DOMAIN video_ids : DictHas(main_durations, video_ids[j])
                /\ Len(main_durations) = Cardinality({video_ids[j] : j \in DOMAIN video_ids})

\* 120 distinct identifiers: requests of 50, 50 and 20, and 120 entries
WitnessC3 ==
    /\ pc = "filter"
    /\ Len(video_ids) = 120
    /\ ~incomplete
    /\ [r \in DOMAIN batch_requests |-> Len(batch_requests[r].ids)] = <<50, 50, 20>>
    /\ Len(main_durations) = 120

(* C4: a non-success response to a duration-lookup request is fatal: the   *)
(* request is the last one sent (no retry, no later chunk), the process    *)
(* has exited with status 1, main() holds no mapping, not even the entries *)
(* of earlier chunks, and filter, sort and print have not run.             *)
TheoremC4 ==
    \A r \in DOMAIN batch_requests :
        batch_requests[r].status # HTTP_OK =>
            /\ r = Len(batch_requests)
            /\ pc = "exited"
            /\ exit_code = 1
            /\ main_durations = <<>>
            /\ filtered_videos = <<>>
            /\ sorted_videos = <<>>
            /\ output = <<>>

\* the second of three chunks failed, after the first had stored entries
WitnessC4 ==
    /\ pc = "exited"
    /\ Len(video_ids) > 2 * YT_MAX_RES_PER_REQUEST
    /\ Len(batch_requests) = 2
    /\ batch_requests[1].status = HTTP_OK
    /\ batch_requests[2].status # HTTP_OK
    /\ durations # <<>>

(* C5: for a duration of d whole seconds get_video_duration_category       *)
(* returns short if d < 240, medium if 240 <= d < 1200 and long if         *)
(* d >= 1200, and nothing else.                                            *)
TheoremC5 ==
    (pc = "classified" /\ IsTimedelta(duration)) =>
        LET d == TotalSeconds(duration)
        IN  /\ category \in {"short", "medium", "long"}
            /\ category = "short" <=> d < 4 * 60
            /\ category = "medium" <=> (4 * 60 <= d /\ d < 20 * 60)
            /\ category = "long" <=> d >= 20 * 60

\* 4:00 is medium
WitnessC5 ==
    /\ pc = "classified"
    /\ duration = Timedelta(4, 0)
    /\ category = "medium"

(* C6: filter_videos_by_duration returns exactly the entries whose          *)
(* duration is the target, to the second: every entry returned is an entry *)
(* of the input with the target duration, every such entry of the input is *)
(* returned, once, and the input mapping is as it was.                     *)
TheoremC6 ==
    pc \in {"sort", "print", "done"} =>
        /\ \A m \in DOMAIN filtered_videos :
              /\ TotalSeconds(filtered_videos[m].v) = TargetSeconds
              /\ \E j \in DOMAIN main_durations : main_durations[j] = filtered_videos[m]
        /\ \A j \in DOMAIN main_durations :
              TotalSeconds(main_durations[j].v) = TargetSeconds =>
                  \E m \in DOMAIN filtered_videos : filtered_videos[m] = main_durations[j]
        /\ Len(filtered_videos) =
              Cardinality({j \in DOMAIN main_durations :
                              TotalSeconds(main_durations[j].v) = TargetSeconds})
        /\ main_durations = durations

\* of three entries, one second over, one second under and on target, one is kept
WitnessC6 ==
    /\ pc = "sort"
    /\ Len(main_durations) = 3
    /\ Len(filtered_videos) = 1
    /\ \E j \in DOMAIN main_durations : TotalSeconds(main_durations[j].v) = TargetSeconds + 1
    /\ \E j \in DOMAIN main_durations : TotalSeconds(main_durations[j].v) = TargetSeconds - 1

\* (uppercase letters, digits, duration in seconds) of the id at place j of
\* the sorted list
SortedKey(j) ==
    <<num_upper_case(sorted_videos[j]), num_digits(sorted_videos[j]),
      TotalSeconds(DictGet(filtered_videos, sorted_videos[j]))>>

LexLeq(a, b) ==
    \/ a[1] < b[1]
    \/ a[1] = b[1] /\ a[2] < b[2]
    \/ a[1] = b[1] /\ a[2] = b[2] /\ a[3] <= b[3]

TheoremC8 ==
    pc = "done" =>
        IF sorted_videos = <<>>
        THEN output = << <<"No videos found :(">> >>
        ELSE /\ Len(output) = Len(sorted_videos) + 2
             /\ output[1] = <<"\n", "\t", "ESC[1m", "Sorted video ids:", "ESC[0m">>
             /\ \A j \in DOMAIN sorted_videos :
                   output[j + 1] = <<"\t", "ESC[32m">> \o sorted_videos[j] \o <<"ESC[0m">>
             /\ output[Len(output)] = <<>>
             /\ \A j \in DOMAIN output : output[j] # <<"No videos found :(">>

\* two identifiers printed under the header
WitnessC8 ==
    /\ pc = "done"
    /\ Len(sorted_videos) = 2
    /\ Len(output) = 4

(* C9: a search whose query was completed by an earlier process finds it   *)
(* in the cache and returns the cached list without a search request.      *)
TheoremC9 ==
    /\ pc = "cache_check" => (DictHas(cache, Query) <=> Query \in completed)
    /\ Query \in completed =>
          /\ ~requested
          /\ pc = "lookup" => (DictHas(cache, Query) /\ video_ids = DictGet(cache, Query))

\* a later process has got a full list from the cache
WitnessC9 ==
    /\ Query \in completed
    /\ pc = "lookup"
    /\ ~requested
    /\ Len(video_ids) = max_total

(* C10, as claimed: when every search request is answered by a success,    *)
(* the loop ends after finitely many requests.                             *)
ClaimC10 == <>(pc # "search" \/ any_fail)

(* C10, amended: when every search request is answered by a success and    *)
(* every response that carries a continuation token carries an item, the   *)
(* loop ends after finitely many requests; and a success response ends the *)
(* loop exactly when 30 identifiers are collected after it or it carries   *)
(* no continuation token.                                                  *)
TheoremC10 ==
    /\ [][(pc = "search" /\ search_fails' = 0) =>
            (pc' = "lookup" <=> (Len(video_ids') >= max_total \/ page_token' = None))]_vars
    /\ <>(pc # "search" \/ any_fail \/ empty_page)

\* the loop has ended with 30 identifiers and a continuation token in hand
WitnessC10 ==
    /\ pc = "lookup"
    /\ ~any_fail /\ ~empty_page /\ ~overfull
    /\ Len(video_ids) = max_total
    /\ page_token \in Tokens

=============================================================================
